---- MODULE Spec2Model ----
(***************************************************************************)
(* A model of track_metadata_enrichment.py: the MetadataEnricher class     *)
(* (rate limiter, the three source clients, the mood classifier, the tag   *)
(* writer, process_file and process_directory).                            *)
(*                                                                         *)
(* Python values.  A str is a sequence of one-character strings, so that   *)
(* slicing, lower(), replace(), strip() and the `in` substring test are    *)
(* computed and not assumed; '' is <<>>.  A list is a sequence.  A dict is *)
(* a function whose domain is its set of keys; {} is EmptyDict.            *)
(***************************************************************************)
EXTENDS Integers, Sequences, FiniteSets, TLC

VARIABLES
    \* the clock and the rate limiter of the one MetadataEnricher
    now,                \* what time.time() returns, in ticks
    last_request_time,  \* self.last_request_time
    \* threads inside rate_limit, statement by statement
    threads,            \* the threads that call rate_limit
    rl_pc,              \* thread -> the line of rate_limit it is about to execute
    current_time,       \* thread -> its local current_time
    time_since_last,    \* thread -> its local time_since_last
    wake_at,            \* thread -> the time its time.sleep() may return
    grants,             \* the turns granted so far, in order: [thread, time]
    \* the enricher's credentials
    lastfm_api_key,     \* self.lastfm_api_key
    discogs_token,      \* self.discogs_token
    \* the directory and process_directory
    directory_exists,   \* directory.exists()
    file_tags,          \* file -> its tags: key -> list of str
    pd_pc,              \* where process_directory is
    results,            \* the list results
    summary,            \* the counts print_summary logged, None before
    previous_runs,      \* the earlier runs of main on the directory: file -> its future
    \* one process_file call per file, run by a worker of the pool
    pc,                 \* file -> where its process_file call is
    missing_fields,     \* file -> missing_fields
    artist,             \* file -> artist
    title,              \* file -> title
    frame,              \* file -> new_metadata, found_genre and the exception raised
    mb_result,          \* file -> result of search_musicbrainz while it fetches the genres
    mb_data,            \* file -> mb_data
    lfm_data,           \* file -> lfm_data
    discogs_data,       \* file -> discogs_data
    calls,              \* file -> the requests sent for it, in order
    turns,              \* file -> the number of rate_limit calls made for it
    warnings,           \* file -> the requests whose failure was logged as a warning
    future,             \* file -> what its future holds: Pending, a result or an exception
    \* one call of classify_mood
    arg_tags,           \* the argument tags
    arg_genre,          \* the argument genre
    ret_mood            \* the value returned, None before the call

clockVars == <<now, last_request_time>>
rlVars == <<threads, rl_pc, current_time, time_since_last, wake_at, grants>>
moodVars == <<arg_tags, arg_genre, ret_mood>>
keyVars == <<lastfm_api_key, discogs_token>>
dirVars == <<directory_exists, file_tags, pd_pc, results, summary, previous_runs>>
workerVars == <<pc, missing_fields, artist, title, frame, mb_result, mb_data, lfm_data,
                discogs_data, calls, turns, warnings, future>>
fileVars == <<keyVars, dirVars, workerVars>>
vars == <<now, last_request_time, threads, rl_pc, current_time, time_since_last,
          wake_at, grants, arg_tags, arg_genre, ret_mood, lastfm_api_key, discogs_token,
          directory_exists, file_tags, pd_pc, results, summary, previous_runs, pc,
          missing_fields,
          artist, title, frame, mb_result, mb_data, lfm_data, discogs_data, calls,
          turns, warnings, future>>

(***************************************************************************)
(* Python built-ins used by the program                                    *)
(***************************************************************************)
\* Python's None; a one-element sequence no str can equal.
None == <<"None">>

EmptyDict == <<>>

ascii_uppercase == <<"A", "B", "C", "D", "E", "F", "G", "H", "I", "J", "K", "L", "M", "N", "O", "P", "Q", "R", "S", "T", "U", "V", "W", "X", "Y", "Z">>
ascii_lowercase == <<"a", "b", "c", "d", "e", "f", "g", "h", "i", "j", "k", "l", "m", "n", "o", "p", "q", "r", "s", "t", "u", "v", "w", "x", "y", "z">>

Min(S) == CHOOSE x \in S : \A y \in S : x <= y
Max(S) == CHOOSE x \in S : \A y \in S : y <= x

\* str.lower(), character by character
LowerChar(c) ==
    IF \E j \in DOMAIN ascii_uppercase : ascii_uppercase[j] = c
    THEN ascii_lowercase[CHOOSE j \in DOMAIN ascii_uppercase : ascii_uppercase[j] = c]
    ELSE c

Lower(s) == [i \in 1..Len(s) |-> LowerChar(s[i])]

\* Python's `keyword in text` for two str
Contains(keyword, text) ==
    \E i \in 0..(Len(text) - Len(keyword)) :
        SubSeq(text, i + 1, i + Len(keyword)) = keyword

\* sep.join(list)
RECURSIVE Join(_, _)
Join(sep, list) ==
    IF list = <<>> THEN <<>>
    ELSE IF Len(list) = 1 THEN list[1]
    ELSE list[1] \o sep \o Join(sep, Tail(list))

\* any(keyword in text for keyword in keywords)
AnyKeywordIn(keywords, text) ==
    \E k \in DOMAIN keywords : Contains(keywords[k], text)

(***************************************************************************)
(* classify_mood                                                           *)
(***************************************************************************)
s_energetic == <<"e", "n", "e", "r", "g", "e", "t", "i", "c">>
s_chill == <<"c", "h", "i", "l", "l">>
s_emotional == <<"e", "m", "o", "t", "i", "o", "n", "a", "l">>
s_aggressive == <<"a", "g", "g", "r", "e", "s", "s", "i", "v", "e">>
s_groovy == <<"g", "r", "o", "o", "v", "y">>
s_neutral == <<"n", "e", "u", "t", "r", "a", "l">>

\* the dict mood_keywords, in insertion order (the order a Python dict iterates)
mood_keywords ==
    << [mood |-> s_energetic, keywords |->
          <<<<"e", "n", "e", "r", "g", "e", "t", "i", "c">>, <<"u", "p", "b", "e", "a", "t">>, <<"f", "a", "s", "t">>, <<"d", "a", "n", "c", "e">>, <<"e", "l", "e", "c", "t", "r", "o", "n", "i", "c">>, <<"h", "o", "u", "s", "e">>, <<"t", "e", "c", "h", "n", "o">>, <<"t", "r", "a", "n", "c", "e">>, <<"e", "d", "m">>>>],
       [mood |-> s_chill, keywords |->
          <<<<"c", "h", "i", "l", "l">>, <<"a", "m", "b", "i", "e", "n", "t">>, <<"r", "e", "l", "a", "x", "e", "d">>, <<"d", "o", "w", "n", "t", "e", "m", "p", "o">>, <<"l", "o", "u", "n", "g", "e">>, <<"j", "a", "z", "z">>, <<"s", "m", "o", "o", "t", "h">>, <<"c", "a", "l", "m">>>>],
       [mood |-> s_emotional, keywords |->
          <<<<"e", "m", "o", "t", "i", "o", "n", "a", "l">>, <<"m", "e", "l", "a", "n", "c", "h", "o", "l", "i", "c">>, <<"s", "a", "d">>, <<"r", "o", "m", "a", "n", "t", "i", "c">>, <<"b", "a", "l", "l", "a", "d">>, <<"d", "e", "e", "p">>, <<"a", "t", "m", "o", "s", "p", "h", "e", "r", "i", "c">>>>],
       [mood |-> s_aggressive, keywords |->
          <<<<"a", "g", "g", "r", "e", "s", "s", "i", "v", "e">>, <<"h", "e", "a", "v", "y">>, <<"m", "e", "t", "a", "l">>, <<"r", "o", "c", "k">>, <<"h", "a", "r", "d", "c", "o", "r", "e">>, <<"i", "n", "t", "e", "n", "s", "e">>, <<"p", "o", "w", "e", "r", "f", "u", "l">>>>],
       [mood |-> s_groovy, keywords |->
          <<<<"g", "r", "o", "o", "v", "y">>, <<"f", "u", "n", "k">>, <<"s", "o", "u", "l">>, <<"d", "i", "s", "c", "o">>, <<"r", "h", "y", "t", "h", "m">>, <<"s", "w", "i", "n", "g">>, <<"b", "a", "s", "s">>>>] >>

\* The genre-only chain with a word in its last branch that the primary table lacks.
genre_fallback_with_polka ==
    << [mood |-> s_energetic, keywords |->
          <<<<"h", "o", "u", "s", "e">>, <<"t", "e", "c", "h", "n", "o">>, <<"t", "r", "a", "n", "c", "e">>, <<"e", "d", "m">>, <<"d", "a", "n", "c", "e">>>>],
       [mood |-> s_chill, keywords |->
          <<<<"a", "m", "b", "i", "e", "n", "t">>, <<"l", "o", "u", "n", "g", "e">>, <<"j", "a", "z", "z">>, <<"c", "h", "i", "l", "l", "o", "u", "t">>>>],
       [mood |-> s_aggressive, keywords |->
          <<<<"m", "e", "t", "a", "l">>, <<"r", "o", "c", "k">>, <<"h", "a", "r", "d", "c", "o", "r", "e">>>>],
       [mood |-> s_groovy, keywords |->
          <<<<"f", "u", "n", "k">>, <<"s", "o", "u", "l">>, <<"d", "i", "s", "c", "o">>, <<"p", "o", "l", "k", "a">>>>] >>

\* the if/elif chain of the genre-only fallback, in its order
genre_fallback ==
    << [mood |-> s_energetic, keywords |->
          <<<<"h", "o", "u", "s", "e">>, <<"t", "e", "c", "h", "n", "o">>, <<"t", "r", "a", "n", "c", "e">>, <<"e", "d", "m">>, <<"d", "a", "n", "c", "e">>>>],
       [mood |-> s_chill, keywords |->
          <<<<"a", "m", "b", "i", "e", "n", "t">>, <<"l", "o", "u", "n", "g", "e">>, <<"j", "a", "z", "z">>, <<"c", "h", "i", "l", "l", "o", "u", "t">>>>],
       [mood |-> s_aggressive, keywords |->
          <<<<"m", "e", "t", "a", "l">>, <<"r", "o", "c", "k">>, <<"h", "a", "r", "d", "c", "o", "r", "e">>>>],
       [mood |-> s_groovy, keywords |->
          <<<<"f", "u", "n", "k">>, <<"s", "o", "u", "l">>, <<"d", "i", "s", "c", "o">>>>] >>

\* The loop without its early return: the last matching mood wins.
classify_mood_last_match(tags, genre) ==
    LET text_to_analyze == Lower(Join(<<" ">>, tags \o <<genre>>))
        matching == {i \in DOMAIN mood_keywords :
                        AnyKeywordIn(mood_keywords[i].keywords, text_to_analyze)}
    IN  IF matching # {} THEN mood_keywords[Max(matching)].mood ELSE s_neutral

\* The genre left out of the text and no genre fallback: the tags alone decide.
classify_mood_tags_only(tags, genre) ==
    LET text_to_analyze == Lower(Join(<<" ">>, tags))
        matching == {i \in DOMAIN mood_keywords :
                        AnyKeywordIn(mood_keywords[i].keywords, text_to_analyze)}
    IN  IF matching # {} THEN mood_keywords[Min(matching)].mood ELSE s_neutral

classify_mood(tags, genre) ==
    LET text_to_analyze == Lower(Join(<<" ">>, tags \o <<genre>>))
        matching == {i \in DOMAIN mood_keywords :
                        AnyKeywordIn(mood_keywords[i].keywords, text_to_analyze)}
        genre_lower == Lower(genre)
        fallback == {i \in DOMAIN genre_fallback :
                        AnyKeywordIn(genre_fallback[i].keywords, genre_lower)}
    IN  IF matching # {} THEN mood_keywords[Min(matching)].mood
        ELSE IF fallback # {} THEN genre_fallback[Min(fallback)].mood
        ELSE s_neutral

(***************************************************************************)
(* More Python built-ins                                                   *)
(***************************************************************************)
\* s[:n]
Prefix(s, n) == SubSeq(s, 1, IF Len(s) < n THEN Len(s) ELSE n)

\* s.replace(old, '') for a one-character old
RECURSIVE RemoveChar(_, _)
RemoveChar(s, old) ==
    IF s = <<>> THEN <<>>
    ELSE IF Head(s) = old THEN RemoveChar(Tail(s), old)
    ELSE <<Head(s)>> \o RemoveChar(Tail(s), old)

\* s.strip(): leading and trailing blanks removed
RECURSIVE LStrip(_)
LStrip(s) == IF s # <<>> /\ Head(s) = " " THEN LStrip(Tail(s)) ELSE s

RECURSIVE RStrip(_)
RStrip(s) ==
    IF s # <<>> /\ s[Len(s)] = " " THEN RStrip(SubSeq(s, 1, Len(s) - 1)) ELSE s

\* s.lstrip() in the place of s.strip()
Strip_leading_only(s) == LStrip(s)

Strip(s) == RStrip(LStrip(s))

\* A JSON number n >= 0 as Python holds it: an int, kept here as a marker followed
\* by its decimal digits, so that no str equals it.
Digits == <<"0", "1", "2", "3", "4", "5", "6", "7", "8", "9">>

RECURSIVE Decimal(_)
Decimal(n) ==
    IF n < 10 THEN <<Digits[n + 1]>> ELSE Decimal(n \div 10) \o <<Digits[(n % 10) + 1]>>

JsonNumber(n) == <<"JSON number">> \o Decimal(n)

IsNumber(v) == v # <<>> /\ v[1] = "JSON number"

\* str(v) of an int or a str
Str(v) == IF IsNumber(v) THEN Tail(v) ELSE v

\* d.get(key) of a dict, None when the key is absent
Get(d, key) == IF key \in DOMAIN d THEN d[key] ELSE None

\* d[key] = value
SetKey(d, key, value) == (key :> value) @@ d

\* bool(v) of a str, None or int
Truthy(v) == v # None /\ v # <<>> /\ v # JsonNumber(0)

\* bool(v) of a list
NonEmpty(list) == Len(list) > 0

(***************************************************************************)
(* The enricher's configuration (__init__)                                 *)
(***************************************************************************)
WORKERS == 4

lastfm_placeholder == <<"Y", "O", "U", "R", "_", "L", "A", "S", "T", "F", "M", "_", "A", "P", "I", "_", "K", "E", "Y", "_", "H", "E", "R", "E">>
discogs_placeholder == <<"Y", "O", "U", "R", "_", "D", "I", "S", "C", "O", "G", "S", "_", "T", "O", "K", "E", "N", "_", "H", "E", "R", "E">>

(***************************************************************************)
(* Tag codec: extract_metadata and update_metadata                         *)
(***************************************************************************)
\* tags.get(key, [''])[0] if tags.get(key) else ''
TagValue(tags, key) == IF tags[key] # <<>> THEN tags[key][1] ELSE <<>>

extract_metadata(tags) ==
    [key \in {"title", "artist", "album", "genre", "date", "mood"} |-> TagValue(tags, key)]

\* The writer with the guards dropped: every field of new_metadata is written,
\* and a field it lacks is cleared.
update_tags_unguarded(tags, metadata) ==
    [tags EXCEPT !["genre"] = IF Truthy(Get(metadata, "genre")) THEN <<metadata["genre"]>> ELSE <<>>,
                 !["date"] = IF Truthy(Get(metadata, "year")) THEN <<metadata["year"]>> ELSE <<>>,
                 !["mood"] = IF Truthy(Get(metadata, "mood")) THEN <<metadata["mood"]>> ELSE <<>>]

\* The writer without its third assignment: the mood is never written.
update_tags_no_mood(tags, metadata) ==
    [tags EXCEPT !["genre"] = IF Truthy(Get(metadata, "genre")) THEN <<metadata["genre"]>> ELSE @,
                 !["date"] = IF Truthy(Get(metadata, "year")) THEN <<metadata["year"]>> ELSE @]

\* The writer saving a tag set of its own making, in which the album is not kept.
update_tags_album_dropped(tags, metadata) ==
    [tags EXCEPT !["genre"] = IF Truthy(Get(metadata, "genre")) THEN <<metadata["genre"]>> ELSE @,
                 !["date"] = IF Truthy(Get(metadata, "year")) THEN <<metadata["year"]>> ELSE @,
                 !["mood"] = IF Truthy(Get(metadata, "mood")) THEN <<metadata["mood"]>> ELSE @,
                 !["album"] = <<>>]

\* the assignments of update_metadata to the tags, before audio.save()
update_tags(tags, metadata) ==
    [tags EXCEPT !["genre"] = IF Truthy(Get(metadata, "genre")) THEN <<metadata["genre"]>> ELSE @,
                 !["date"] = IF Truthy(Get(metadata, "year")) THEN <<metadata["year"]>> ELSE @,
                 !["mood"] = IF Truthy(Get(metadata, "mood")) THEN <<metadata["mood"]>> ELSE @]

(***************************************************************************)
(* process_file: what is missing, and the merge of each source's result    *)
(***************************************************************************)
\* The year looked up under 'year', a key extract_metadata never sets: always missing.
MissingFields_year_key(existing_metadata) ==
    {field \in {"genre", "year", "mood"} :
        field = "year" \/ ~Truthy(existing_metadata[field])}

\* missing_fields, as a set
MissingFields(existing_metadata) ==
    {field \in {"genre", "year", "mood"} :
        ~Truthy(existing_metadata[IF field = "year" THEN "date" ELSE field])}

\* The locals of process_file that the merges change.  raised is the exception
\* process_file raises, None while it has raised none.
Locals(metadata, genre, exc) ==
    [new_metadata |-> metadata, found_genre |-> genre, raised |-> exc]

\* The MusicBrainz merge noting in found_genre whatever genre MusicBrainz
\* returned, whether or not the file lacked one.
MergeMusicbrainz_genre_always_noted(missing, l, data) ==
    IF DOMAIN data = {} THEN l
    ELSE
        LET takeGenre == "genre" \in missing /\ NonEmpty(data["genre"])
            genre1 == IF NonEmpty(data["genre"]) THEN data["genre"][1] ELSE l.found_genre
            nm1 == IF takeGenre THEN SetKey(l.new_metadata, "genre", genre1) ELSE l.new_metadata
            takeYear == "year" \in missing /\ Truthy(data["date"])
        IN  IF takeYear /\ IsNumber(data["date"])
            THEN Locals(nm1, genre1, <<"TypeError">>)
            ELSE IF takeYear
            THEN Locals(SetKey(nm1, "year", Prefix(data["date"], 4)), genre1, None)
            ELSE Locals(nm1, genre1, None)

\* if data: ... (lines 372-377)
MergeMusicbrainz(missing, l, data) ==
    IF DOMAIN data = {} THEN l
    ELSE
        LET takeGenre == "genre" \in missing /\ NonEmpty(data["genre"])
            genre1 == IF takeGenre THEN data["genre"][1] ELSE l.found_genre
            nm1 == IF takeGenre THEN SetKey(l.new_metadata, "genre", genre1) ELSE l.new_metadata
            takeYear == "year" \in missing /\ Truthy(data["date"])
        IN  IF takeYear /\ IsNumber(data["date"])
            THEN Locals(nm1, genre1, <<"TypeError">>)   \* an int is not subscriptable
            ELSE IF takeYear
            THEN Locals(SetKey(nm1, "year", Prefix(data["date"], 4)), genre1, None)
            ELSE Locals(nm1, genre1, None)

\* The Last.fm merge without `not new_metadata.get(...)`: a later source overwrites.
MergeLastfm_overwrite(missing, l, data) ==
    IF DOMAIN data = {} THEN l
    ELSE
        LET takeGenre == "genre" \in missing /\ Truthy(data["genre"])
            genre1 == IF takeGenre THEN data["genre"] ELSE l.found_genre
            nm1 == IF takeGenre THEN SetKey(l.new_metadata, "genre", genre1) ELSE l.new_metadata
            takeYear == "year" \in missing /\ Truthy(data["year"])
            nm2 == IF takeYear THEN SetKey(nm1, "year", data["year"]) ELSE nm1
            takeMood == "mood" \in missing /\ NonEmpty(data["mood"])
            nm3 == IF takeMood THEN SetKey(nm2, "mood", classify_mood(data["mood"], genre1)) ELSE nm2
        IN  Locals(nm3, genre1, None)

\* The Last.fm merge with the tags dropped from the classification: the mood comes
\* from the genre found so far alone.
MergeLastfm_mood_from_genre(missing, l, data) ==
    IF DOMAIN data = {} THEN l
    ELSE
        LET takeGenre == /\ "genre" \in missing
                         /\ ~Truthy(Get(l.new_metadata, "genre"))
                         /\ Truthy(data["genre"])
            genre1 == IF takeGenre THEN data["genre"] ELSE l.found_genre
            nm1 == IF takeGenre THEN SetKey(l.new_metadata, "genre", genre1) ELSE l.new_metadata
            takeYear == /\ "year" \in missing
                        /\ ~Truthy(Get(nm1, "year"))
                        /\ Truthy(data["year"])
            nm2 == IF takeYear THEN SetKey(nm1, "year", data["year"]) ELSE nm1
            takeMood == "mood" \in missing /\ NonEmpty(data["mood"])
            nm3 == IF takeMood THEN SetKey(nm2, "mood", classify_mood(<<>>, genre1)) ELSE nm2
        IN  Locals(nm3, genre1, None)

\* if data: ... (lines 381-388)
MergeLastfm(missing, l, data) ==
    IF DOMAIN data = {} THEN l
    ELSE
        LET takeGenre == /\ "genre" \in missing
                         /\ ~Truthy(Get(l.new_metadata, "genre"))
                         /\ Truthy(data["genre"])
            genre1 == IF takeGenre THEN data["genre"] ELSE l.found_genre
            nm1 == IF takeGenre THEN SetKey(l.new_metadata, "genre", genre1) ELSE l.new_metadata
            takeYear == /\ "year" \in missing
                        /\ ~Truthy(Get(nm1, "year"))
                        /\ Truthy(data["year"])
            nm2 == IF takeYear THEN SetKey(nm1, "year", data["year"]) ELSE nm1
            takeMood == "mood" \in missing /\ NonEmpty(data["mood"])
            nm3 == IF takeMood THEN SetKey(nm2, "mood", classify_mood(data["mood"], genre1)) ELSE nm2
        IN  Locals(nm3, genre1, None)

\* if data: ... (lines 392-397)
MergeDiscogs(missing, l, data) ==
    IF DOMAIN data = {} THEN l
    ELSE
        LET takeYear == /\ "year" \in missing
                        /\ ~Truthy(Get(l.new_metadata, "year"))
                        /\ Truthy(data["year"])
            nm1 == IF takeYear THEN SetKey(l.new_metadata, "year", Str(data["year"]))
                   ELSE l.new_metadata
            takeGenre == /\ "genre" \in missing
                         /\ ~Truthy(Get(nm1, "genre"))
                         /\ NonEmpty(data["genre"])
            genre1 == IF takeGenre THEN data["genre"][1] ELSE l.found_genre
            nm2 == IF takeGenre THEN SetKey(nm1, "genre", genre1) ELSE nm1
        IN  Locals(nm2, genre1, None)

\* Without `not new_metadata.get('mood')`: the mood is classified again from the
\* genre whenever a genre was found.
MoodFromGenre_recomputed(missing, l) ==
    IF "mood" \in missing /\ Truthy(l.found_genre)
    THEN SetKey(l.new_metadata, "mood", classify_mood(<<>>, l.found_genre))
    ELSE l.new_metadata

\* if 'mood' in missing_fields and not new_metadata.get('mood') and found_genre (400-401)
MoodFromGenre(missing, l) ==
    IF "mood" \in missing /\ ~Truthy(Get(l.new_metadata, "mood")) /\ Truthy(l.found_genre)
    THEN SetKey(l.new_metadata, "mood", classify_mood(<<>>, l.found_genre))
    ELSE l.new_metadata

(***************************************************************************)
(* The rate limiter                                                        *)
(***************************************************************************)
\* The clock ticks TicksPerSecond times a second.
TicksPerSecond == 2

\* self.min_request_interval = 1.0 seconds, in ticks
min_request_interval == 1 * TicksPerSecond

\* time.time() counts from 1970: when the program starts, the clock is more
\* than min_request_interval past the initial last_request_time of 0.
StartTime == min_request_interval

\* The argument of time.sleep with the subtraction dropped: no wait at all.
sleep_seconds_none(since_last) == 0

\* the argument of time.sleep in rate_limit
sleep_seconds(since_last) == min_request_interval - since_last

ClockInit ==
    /\ now = StartTime
    /\ last_request_time = 0

RLIdle ==
    /\ threads = {}
    /\ rl_pc = EmptyDict
    /\ current_time = EmptyDict
    /\ time_since_last = EmptyDict
    /\ wake_at = EmptyDict
    /\ grants = <<>>

FilesIdle ==
    /\ lastfm_api_key = <<>>
    /\ discogs_token = <<>>
    /\ directory_exists = FALSE
    /\ file_tags = EmptyDict
    /\ pd_pc = "idle"
    /\ results = <<>>
    /\ summary = None
    /\ previous_runs = <<>>
    /\ pc = EmptyDict
    /\ missing_fields = EmptyDict
    /\ artist = EmptyDict
    /\ title = EmptyDict
    /\ frame = EmptyDict
    /\ mb_result = EmptyDict
    /\ mb_data = EmptyDict
    /\ lfm_data = EmptyDict
    /\ discogs_data = EmptyDict
    /\ calls = EmptyDict
    /\ turns = EmptyDict
    /\ warnings = EmptyDict
    /\ future = EmptyDict

MoodIdle ==
    /\ arg_tags = <<>>
    /\ arg_genre = <<>>
    /\ ret_mood = None

(***************************************************************************)
(* SpecMood: classify_mood applied to every tag list and genre of a small  *)
(* vocabulary.                                                             *)
(***************************************************************************)
MaxTags == 2

in_metal == <<"m", "e", "t", "a", "l">>
in_energetic == <<"e", "n", "e", "r", "g", "e", "t", "i", "c">>
in_Dance == <<"D", "a", "n", "c", "e">>
in_fun == <<"f", "u", "n">>
in_sad == <<"s", "a", "d">>
in_smooth_jazz == <<"s", "m", "o", "o", "t", "h", " ", "j", "a", "z", "z">>
in_obscure_polka == <<"o", "b", "s", "c", "u", "r", "e", " ", "p", "o", "l", "k", "a">>
in_Funk == <<"F", "u", "n", "k">>
in_Hard_Rock == <<"H", "a", "r", "d", " ", "R", "o", "c", "k">>
in_chillout == <<"c", "h", "i", "l", "l", "o", "u", "t">>

TagVocabulary == {in_metal, in_energetic, in_Dance, in_fun, in_sad, in_smooth_jazz}
GenreVocabulary == {<<>>, in_smooth_jazz, in_obscure_polka, in_Funk, in_Hard_Rock, in_chillout}

TagLists == UNION {[1..n -> TagVocabulary] : n \in 0..MaxTags}

InitMood ==
    /\ arg_tags \in TagLists
    /\ arg_genre \in GenreVocabulary
    /\ ret_mood = None
    /\ ClockInit
    /\ RLIdle
    /\ FilesIdle

ClassifyMood ==
    /\ ret_mood = None
    /\ ret_mood' = classify_mood(arg_tags, arg_genre)
    /\ UNCHANGED <<arg_tags, arg_genre, clockVars, rlVars, fileVars>>

NextMood == ClassifyMood

SpecMood == InitMood /\ [][NextMood]_vars

(***************************************************************************)
(* SpecRL, SpecSeq: threads calling rate_limit on the shared enricher, one *)
(* statement at a time, while the clock ticks.  The pool's workers call it *)
(* with no lock around it (process_directory hands self.process_file to    *)
(* every worker).  SpecSeq has one calling thread, SpecRL has NumThreads.  *)
(***************************************************************************)
NumThreads == 2
MaxCalls == 3       \* turns granted before the threads stop calling rate_limit
MaxTime == 6        \* ticks the clock makes after the start

InitThreads(T) ==
    /\ ClockInit
    /\ threads = T
    /\ rl_pc = [t \in T |-> "idle"]
    /\ current_time = [t \in T |-> 0]
    /\ time_since_last = [t \in T |-> 0]
    /\ wake_at = [t \in T |-> 0]
    /\ grants = <<>>
    /\ MoodIdle
    /\ FilesIdle

InitRL == InitThreads(1..NumThreads)

InitSeq == InitThreads({1})

\* time passes
Tick ==
    /\ now < StartTime + MaxTime
    /\ now' = now + 1
    /\ UNCHANGED <<last_request_time, rlVars, moodVars, fileVars>>

\* a thread calls self.rate_limit()
RLCall(t) ==
    /\ rl_pc[t] = "idle"
    /\ Len(grants) < MaxCalls
    /\ rl_pc' = [rl_pc EXCEPT ![t] = "line91"]
    /\ UNCHANGED <<clockVars, threads, current_time, time_since_last, wake_at, grants, moodVars, fileVars>>

\* current_time = time.time()
RLReadClock(t) ==
    /\ rl_pc[t] = "line91"
    /\ current_time' = [current_time EXCEPT ![t] = now]
    /\ rl_pc' = [rl_pc EXCEPT ![t] = "line92"]
    /\ UNCHANGED <<clockVars, threads, time_since_last, wake_at, grants, moodVars, fileVars>>

\* time_since_last = current_time - self.last_request_time
RLReadLast(t) ==
    /\ rl_pc[t] = "line92"
    /\ time_since_last' = [time_since_last EXCEPT ![t] = current_time[t] - last_request_time]
    /\ rl_pc' = [rl_pc EXCEPT ![t] = "line93"]
    /\ UNCHANGED <<clockVars, threads, current_time, wake_at, grants, moodVars, fileVars>>

\* if time_since_last < self.min_request_interval: time.sleep(...)
RLTest(t) ==
    /\ rl_pc[t] = "line93"
    /\ IF time_since_last[t] < min_request_interval
       THEN /\ wake_at' = [wake_at EXCEPT ![t] = now + sleep_seconds(time_since_last[t])]
            /\ rl_pc' = [rl_pc EXCEPT ![t] = "sleeping"]
       ELSE /\ wake_at' = wake_at
            /\ rl_pc' = [rl_pc EXCEPT ![t] = "line95"]
    /\ UNCHANGED <<clockVars, threads, current_time, time_since_last, grants, moodVars, fileVars>>

\* time.sleep returns, no sooner than asked
RLWake(t) ==
    /\ rl_pc[t] = "sleeping"
    /\ now >= wake_at[t]
    /\ rl_pc' = [rl_pc EXCEPT ![t] = "line95"]
    /\ UNCHANGED <<clockVars, threads, current_time, time_since_last, wake_at, grants, moodVars, fileVars>>

\* self.last_request_time = time.time(), and rate_limit returns: the turn is granted
RLStamp(t) ==
    /\ rl_pc[t] = "line95"
    /\ last_request_time' = now
    /\ grants' = Append(grants, [thread |-> t, time |-> now])
    /\ rl_pc' = [rl_pc EXCEPT ![t] = "idle"]
    /\ UNCHANGED <<now, threads, current_time, time_since_last, wake_at, moodVars, fileVars>>

NextRL ==
    \/ Tick
    \/ \E t \in threads : RLCall(t)
    \/ \E t \in threads : RLReadClock(t)
    \/ \E t \in threads : RLReadLast(t)
    \/ \E t \in threads : RLTest(t)
    \/ \E t \in threads : RLWake(t)
    \/ \E t \in threads : RLStamp(t)

SpecRL == InitRL /\ [][NextRL]_vars

SpecSeq == InitSeq /\ [][NextRL]_vars

(***************************************************************************)
(* Spec, SpecBatch: process_directory, with one process_file call per file *)
(* run by the workers of the pool.  A worker's step is one request (with   *)
(* the rate_limit call before it and the handling of the response after    *)
(* it); rate_limit statement by statement is SpecRL's subject.             *)
(***************************************************************************)
\* what the files hold, and what the sources answer
in_Get_Lucky == <<"G", "e", "t", " ", "L", "u", "c", "k", "y">>
in_Daft_Punk == <<"D", "a", "f", "t", " ", "P", "u", "n", "k">>
in_RAM == <<"R", "A", "M">>
in_Rock == <<"R", "o", "c", "k">>
in_1999 == <<"1", "9", "9", "9">>
in_calm == <<"c", "a", "l", "m">>
in_key == <<"0", "1", "2", "3", "a", "b", "c", "d">>
in_mbid == <<"0", "5", "6", "e", "4", "f", "3", "e">>
in_2013_04_19 == <<"2", "0", "1", "3", "-", "0", "4", "-", "1", "9">>
in_2012_11_01 == <<"2", "0", "1", "2", "-", "1", "1", "-", "0", "1">>
in_House == <<"H", "o", "u", "s", "e">>
in_Techno == <<"T", "e", "c", "h", "n", "o">>
in_Electronic == <<"E", "l", "e", "c", "t", "r", "o", "n", "i", "c">>
in_dance == <<"d", "a", "n", "c", "e">>
in_edm == <<"e", "d", "m">>
in_x == <<"x">>

\* the ways a request fails: no connection, a non-2xx status, a body that is not
\* JSON, a JSON body of another shape than the client reads
Failures == {"ConnectionError", "HTTPError", "JSONDecodeError", "AttributeError"}

Failed(error) == [error |-> error]

\* GET /recording/: no recording, or the first recording's date and artist id
MBDates == {<<>>, in_2013_04_19, JsonNumber(2013)}
MBRecordingResponses ==
    {Failed(e) : e \in Failures}
        \cup {[error |-> "none", recordings |-> <<>>]}
        \cup {[error |-> "none", recordings |-> <<[date |-> d, artist_id |-> a]>>] :
                d \in MBDates, a \in {None, in_mbid}}

\* GET /artist/<id>?inc=genres: the genre names
MBGenreLists == {<<>>, <<in_Funk>>, <<in_House, in_Techno>>}
MBArtistResponses ==
    {Failed(e) : e \in Failures} \cup {[error |-> "none", genres |-> g] : g \in MBGenreLists}

\* track.getInfo: no track, or the track's wiki and top tags
LFMTagLists == {<<>>, <<in_dance, in_fun>>, <<in_metal, in_energetic>>,
                <<in_x, in_x, in_x, in_x, in_x, in_edm>>}
LFMResponses ==
    {Failed(e) : e \in Failures}
        \cup {[error |-> "none", found |-> FALSE]}
        \cup {[error |-> "none", found |-> TRUE,
               track |-> [genre |-> g, published |-> p, toptags |-> tg]] :
                g \in {<<>>, in_Techno}, p \in {<<>>, in_2012_11_01}, tg \in LFMTagLists}

\* GET /database/search: whether a release was found
DiscogsSearchResponses ==
    {Failed(e) : e \in Failures} \cup {[error |-> "none", found |-> b] : b \in BOOLEAN}

\* GET /releases/<id>: the release's year and genres
DiscogsReleaseResponses ==
    {Failed(e) : e \in Failures}
        \cup {[error |-> "none", year |-> y, genres |-> g] :
                y \in {JsonNumber(0), JsonNumber(2014)}, g \in {<<>>, <<in_Electronic>>}}

\* Only an absent credential counts: the placeholder is sent like a real one.
NotConfigured_absent_only(credential, placeholder) == credential = <<>>

\* the credential is absent or the placeholder
NotConfigured(credential, placeholder) == credential = <<>> \/ credential = placeholder

NoLocals == Locals(EmptyDict, <<>>, None)

\* a future whose call has not finished
Pending == [state |-> "PENDING"]

Result(f, status, metadata) == [file |-> f, status |-> status, metadata |-> metadata]

Files == DOMAIN file_tags

\* the workers of the pool that are running a process_file call
Running == {f \in Files : pc[f] \in {"mb", "mb_genres", "lfm", "discogs", "discogs_release", "finish"}}

InitFiles(tagsOfFiles, exists, keys) ==
    /\ ClockInit
    /\ RLIdle
    /\ MoodIdle
    /\ lastfm_api_key = keys[1]
    /\ discogs_token = keys[2]
    /\ directory_exists = exists
    /\ file_tags = tagsOfFiles
    /\ pd_pc = "start"
    /\ results = <<>>
    /\ summary = None
    /\ previous_runs = <<>>
    /\ pc = [f \in DOMAIN tagsOfFiles |-> "found"]
    /\ missing_fields = [f \in DOMAIN tagsOfFiles |-> {}]
    /\ artist = [f \in DOMAIN tagsOfFiles |-> <<>>]
    /\ title = [f \in DOMAIN tagsOfFiles |-> <<>>]
    /\ frame = [f \in DOMAIN tagsOfFiles |-> NoLocals]
    /\ mb_result = [f \in DOMAIN tagsOfFiles |-> EmptyDict]
    /\ mb_data = [f \in DOMAIN tagsOfFiles |-> EmptyDict]
    /\ lfm_data = [f \in DOMAIN tagsOfFiles |-> EmptyDict]
    /\ discogs_data = [f \in DOMAIN tagsOfFiles |-> EmptyDict]
    /\ calls = [f \in DOMAIN tagsOfFiles |-> <<>>]
    /\ turns = [f \in DOMAIN tagsOfFiles |-> 0]
    /\ warnings = [f \in DOMAIN tagsOfFiles |-> {}]
    /\ future = [f \in DOMAIN tagsOfFiles |-> Pending]

\* the tags a file can hold when the run starts
TagSets ==
    [title : {<<>>, <<in_Get_Lucky>>}, artist : {<<>>, <<in_Daft_Punk>>}, album : {<<in_RAM>>},
     genre : {<<>>, <<in_Rock>>}, date : {<<>>, <<in_1999>>}, mood : {<<>>, <<in_calm>>}]

Credentials ==
    {<<>>, lastfm_placeholder, in_key} \X {<<>>, discogs_placeholder, in_key}

\* Spec: a directory with one file, any tags, any credentials
Init ==
    \E tags \in TagSets, keys \in Credentials :
        InitFiles([f \in {1} |-> tags], TRUE, keys)

\* self.rate_limit() on behalf of file f, in one step
RateLimit(f) ==
    LET since == now - last_request_time
        wait == IF since < min_request_interval THEN sleep_seconds(since) ELSE 0
    IN  /\ now' = now + wait
        /\ last_request_time' = now + wait
        /\ turns' = [turns EXCEPT ![f] = @ + 1]

\* self.session.get(...) sent for file f, after its rate_limit call
Request(f, endpoint, query) ==
    /\ RateLimit(f)
    /\ calls' = [calls EXCEPT ![f] = Append(@, [endpoint |-> endpoint, query |-> query])]

\* the except clause around a request: logger.warning when it failed
Except(f, endpoint, r) ==
    warnings' = [warnings EXCEPT ![f] = IF r.error # "none" THEN @ \cup {endpoint} ELSE @]

NoRequest == UNCHANGED <<now, last_request_time, turns, calls, warnings>>

\* process_file returns: its locals are gone, the future holds the result
Return(f, result) ==
    /\ pc' = [pc EXCEPT ![f] = "returned"]
    /\ future' = [future EXCEPT ![f] = result]
    /\ frame' = [frame EXCEPT ![f] = NoLocals]
    /\ mb_data' = [mb_data EXCEPT ![f] = EmptyDict]
    /\ lfm_data' = [lfm_data EXCEPT ![f] = EmptyDict]
    /\ discogs_data' = [discogs_data EXCEPT ![f] = EmptyDict]

\* new_metadata and found_genre kept on the enricher, not in the call: what one
\* worker assigns is what every worker reads.
Continue_locals_on_self(f, l, next) ==
    IF l.raised = None
    THEN /\ pc' = [pc EXCEPT ![f] = next]
         /\ frame' = [g \in DOMAIN frame |-> l]
         /\ future' = future
    ELSE /\ pc' = [pc EXCEPT ![f] = "raised"]
         /\ frame' = [frame EXCEPT ![f] = NoLocals]
         /\ future' = [future EXCEPT ![f] = [exception |-> l.raised]]

\* process_file goes on to `next` with locals l, or leaves by the exception in l
Continue(f, l, next) ==
    IF l.raised = None
    THEN /\ pc' = [pc EXCEPT ![f] = next]
         /\ frame' = [frame EXCEPT ![f] = l]
         /\ future' = future
    ELSE /\ pc' = [pc EXCEPT ![f] = "raised"]
         /\ frame' = [frame EXCEPT ![f] = NoLocals]
         /\ future' = [future EXCEPT ![f] = [exception |-> l.raised]]

\* Last.fm asked before MusicBrainz.
SearchOrder_lastfm_first == <<"lfm", "mb", "discogs", "finish">>

\* the order of the three searches in process_file (lines 371, 380, 391), then the rest
SearchOrder == <<"mb", "lfm", "discogs", "finish">>

\* After any search process_file goes straight to the write.
StageAfter_skip_rest(stage) == "finish"

StageAfter(stage) ==
    SearchOrder[(CHOOSE i \in DOMAIN SearchOrder : SearchOrder[i] = stage) + 1]

\* Both the artist and the title must be empty for 'missing_info'.
EarlyStatus_and(existing_metadata) ==
    IF MissingFields(existing_metadata) = {} THEN "complete"
    ELSE IF ~Truthy(existing_metadata["artist"]) /\ ~Truthy(existing_metadata["title"])
    THEN "missing_info"
    ELSE "search"

\* the status process_file returns before any search, "search" if it goes on (354-364)
EarlyStatus(existing_metadata) ==
    IF MissingFields(existing_metadata) = {} THEN "complete"
    ELSE IF ~Truthy(existing_metadata["artist"]) \/ ~Truthy(existing_metadata["title"])
    THEN "missing_info"
    ELSE "search"

\* Only a directory that does not exist ends the run early.
NothingToProcess_no_directory == ~directory_exists

\* the two early returns of process_directory (lines 415-417 and 423-425)
NothingToProcess == ~directory_exists \/ Files = {}

\* process_directory up to the submission of every file to the pool (lines 415-431)
ProcessDirectory ==
    /\ pd_pc = "start"
    /\ IF NothingToProcess
       THEN /\ pd_pc' = "returned"
            /\ pc' = pc
       ELSE /\ pd_pc' = "collecting"
            /\ pc' = [f \in Files |-> "submitted"]
    /\ UNCHANGED <<clockVars, rlVars, moodVars, keyVars, directory_exists, file_tags,
                   results, summary, previous_runs, missing_fields, artist, title, frame, mb_result,
                   mb_data, lfm_data, discogs_data, calls, turns, warnings, future>>

\* a worker takes file f: process_file up to the first search (lines 338-368)
StartFile(f) ==
    /\ pd_pc = "collecting"
    /\ pc[f] = "submitted"
    /\ Cardinality(Running) < WORKERS
    /\ LET existing_metadata == extract_metadata(file_tags[f])
           missing == MissingFields(existing_metadata)
       IN  /\ missing_fields' = [missing_fields EXCEPT ![f] = missing]
           /\ artist' = [artist EXCEPT ![f] = existing_metadata["artist"]]
           /\ title' = [title EXCEPT ![f] = existing_metadata["title"]]
           /\ IF EarlyStatus(existing_metadata) # "search"
              THEN Return(f, Result(f, EarlyStatus(existing_metadata), EmptyDict))
              ELSE /\ pc' = [pc EXCEPT ![f] = SearchOrder[1]]
                   /\ UNCHANGED <<frame, mb_data, lfm_data, discogs_data, future>>
    /\ NoRequest
    /\ UNCHANGED <<rlVars, moodVars, keyVars, dirVars, mb_result>>

\* search_musicbrainz up to its return or to its call of get_musicbrainz_genres
SearchMusicbrainz(f) ==
    /\ pc[f] = "mb"
    /\ Request(f, "musicbrainz/recording",
               <<Strip(RemoveChar(artist[f], "\"")), Strip(RemoveChar(title[f], "\""))>>)
    /\ \E r \in MBRecordingResponses :
          /\ Except(f, "musicbrainz/recording", r)
          /\ IF r.error # "none" \/ r.recordings = <<>>
             THEN /\ mb_data' = [mb_data EXCEPT ![f] = EmptyDict]
                  /\ mb_result' = mb_result
                  /\ Continue(f, MergeMusicbrainz(missing_fields[f], frame[f], EmptyDict), StageAfter("mb"))
             ELSE LET recording == r.recordings[1]
                      result == [date |-> recording.date, genre |-> <<>>]
                  IN  IF Truthy(recording.artist_id)
                      THEN /\ mb_result' = [mb_result EXCEPT ![f] = result]
                           /\ pc' = [pc EXCEPT ![f] = "mb_genres"]
                           /\ UNCHANGED <<mb_data, frame, future>>
                      ELSE /\ mb_data' = [mb_data EXCEPT ![f] = result]
                           /\ mb_result' = mb_result
                           /\ Continue(f, MergeMusicbrainz(missing_fields[f], frame[f], result), StageAfter("mb"))
    /\ UNCHANGED <<rlVars, moodVars, keyVars, dirVars, missing_fields, artist, title,
                   lfm_data, discogs_data>>

\* get_musicbrainz_genres, the return of search_musicbrainz and lines 372-377
GetMusicbrainzGenres(f) ==
    /\ pc[f] = "mb_genres"
    /\ Request(f, "musicbrainz/artist", <<>>)
    /\ \E r \in MBArtistResponses :
          /\ Except(f, "musicbrainz/artist", r)
          /\ LET genres == IF r.error # "none" THEN <<>> ELSE r.genres
                 result == [mb_result[f] EXCEPT !["genre"] = genres]
             IN  /\ mb_data' = [mb_data EXCEPT ![f] = result]
                 /\ mb_result' = [mb_result EXCEPT ![f] = EmptyDict]
                 /\ Continue(f, MergeMusicbrainz(missing_fields[f], frame[f], result), StageAfter("mb"))
    /\ UNCHANGED <<rlVars, moodVars, keyVars, dirVars, missing_fields, artist, title,
                   lfm_data, discogs_data>>

\* search_lastfm and lines 381-388
SearchLastfm(f) ==
    /\ pc[f] = "lfm"
    /\ IF NotConfigured(lastfm_api_key, lastfm_placeholder)
       THEN /\ NoRequest
            /\ lfm_data' = [lfm_data EXCEPT ![f] = EmptyDict]
            /\ Continue(f, MergeLastfm(missing_fields[f], frame[f], EmptyDict), StageAfter("lfm"))
       ELSE /\ Request(f, "lastfm/track.getInfo", <<artist[f], title[f]>>)
            /\ \E r \in LFMResponses :
                  /\ Except(f, "lastfm/track.getInfo", r)
                  /\ LET result ==
                             IF r.error # "none" \/ ~r.found THEN EmptyDict
                             ELSE [genre |-> r.track.genre,
                                   mood |-> SubSeq(r.track.toptags, 1,
                                                   IF Len(r.track.toptags) < 5
                                                   THEN Len(r.track.toptags) ELSE 5),
                                   year |-> IF Truthy(r.track.published)
                                            THEN Prefix(r.track.published, 4) ELSE <<>>]
                     IN  /\ lfm_data' = [lfm_data EXCEPT ![f] = result]
                         /\ Continue(f, MergeLastfm(missing_fields[f], frame[f], result), StageAfter("lfm"))
    /\ UNCHANGED <<rlVars, moodVars, keyVars, dirVars, missing_fields, artist, title,
                   mb_result, mb_data, discogs_data>>

\* search_discogs up to its return or to its call of get_discogs_release
SearchDiscogs(f) ==
    /\ pc[f] = "discogs"
    /\ IF NotConfigured(discogs_token, discogs_placeholder)
       THEN /\ NoRequest
            /\ discogs_data' = [discogs_data EXCEPT ![f] = EmptyDict]
            /\ Continue(f, MergeDiscogs(missing_fields[f], frame[f], EmptyDict), StageAfter("discogs"))
       ELSE /\ Request(f, "discogs/database/search", <<artist[f] \o <<" ">> \o title[f]>>)
            /\ \E r \in DiscogsSearchResponses :
                  /\ Except(f, "discogs/database/search", r)
                  /\ IF r.error # "none" \/ ~r.found
                     THEN /\ discogs_data' = [discogs_data EXCEPT ![f] = EmptyDict]
                          /\ Continue(f, MergeDiscogs(missing_fields[f], frame[f], EmptyDict), StageAfter("discogs"))
                     ELSE /\ pc' = [pc EXCEPT ![f] = "discogs_release"]
                          /\ UNCHANGED <<discogs_data, frame, future>>
    /\ UNCHANGED <<rlVars, moodVars, keyVars, dirVars, missing_fields, artist, title,
                   mb_result, mb_data, lfm_data>>

\* get_discogs_release, the return of search_discogs and lines 392-397
GetDiscogsRelease(f) ==
    /\ pc[f] = "discogs_release"
    /\ Request(f, "discogs/releases", <<>>)
    /\ \E r \in DiscogsReleaseResponses :
          /\ Except(f, "discogs/releases", r)
          /\ LET result == IF r.error # "none"
                           THEN [year |-> <<>>, genre |-> <<>>]
                           ELSE [year |-> r.year, genre |-> r.genres]
             IN  /\ discogs_data' = [discogs_data EXCEPT ![f] = result]
                 /\ Continue(f, MergeDiscogs(missing_fields[f], frame[f], result), StageAfter("discogs"))
    /\ UNCHANGED <<rlVars, moodVars, keyVars, dirVars, missing_fields, artist, title,
                   mb_result, mb_data, lfm_data>>

\* 'updated' whenever something was found, whether or not it was written.
Outcome_found_is_updated(f, new_metadata, success) ==
    IF DOMAIN new_metadata # {}
    THEN Result(f, "updated", new_metadata)
    ELSE Result(f, "not_found", EmptyDict)

\* what process_file returns at lines 404-411; success is what update_metadata
\* returned, when it was called
Outcome(f, new_metadata, success) ==
    IF DOMAIN new_metadata # {} /\ success
    THEN Result(f, "updated", new_metadata)
    ELSE Result(f, "not_found", EmptyDict)

\* lines 399-411 with update_metadata: the mood from the genre, the write, the result
FinishFile(f) ==
    /\ pc[f] = "finish"
    /\ LET new_metadata == MoodFromGenre(missing_fields[f], frame[f])
       IN  IF DOMAIN new_metadata # {}
           THEN \E saved \in BOOLEAN :    \* audio.save() succeeds or raises
                   /\ file_tags' = IF saved
                                   THEN [file_tags EXCEPT ![f] = update_tags(@, new_metadata)]
                                   ELSE file_tags
                   /\ Return(f, Outcome(f, new_metadata, saved))
           ELSE /\ file_tags' = file_tags
                /\ Return(f, Outcome(f, new_metadata, FALSE))
    /\ NoRequest
    /\ UNCHANGED <<rlVars, moodVars, keyVars, directory_exists, pd_pc, results, summary,
                   previous_runs, missing_fields, artist, title, mb_result>>

\* Collecting with no except clause: the exception of a future leaves the loop,
\* and process_directory with it.
CollectedOrAborted_no_except(f) ==
    IF pc[f] = "raised" THEN [pd_pc |-> "aborted", results |-> results]
    ELSE [pd_pc |-> pd_pc, results |-> Append(results, future[f])]

\* The except clause logs the error and appends nothing.
CollectedOrAborted_error_only_logged(f) ==
    IF pc[f] = "raised" THEN [pd_pc |-> pd_pc, results |-> results]
    ELSE [pd_pc |-> pd_pc, results |-> Append(results, future[f])]

\* one turn of the as_completed loop for the finished future of f (lines 433-440)
CollectedOrAborted(f) ==
    IF pc[f] = "raised"
    THEN [pd_pc |-> pd_pc, results |-> Append(results, Result(f, "error", EmptyDict))]
    ELSE [pd_pc |-> pd_pc, results |-> Append(results, future[f])]

\* Only the futures that returned a result are handed out.
Completed_returned_only(f) == pc[f] = "returned"

\* as_completed hands out the future of f: its call returned or raised
Completed(f) == pc[f] \in {"returned", "raised"}

Collect(f) ==
    /\ pd_pc = "collecting"
    /\ Completed(f)
    /\ pd_pc' = CollectedOrAborted(f).pd_pc
    /\ results' = CollectedOrAborted(f).results
    /\ pc' = [pc EXCEPT ![f] = "collected"]
    /\ UNCHANGED <<clockVars, rlVars, moodVars, keyVars, directory_exists, file_tags, summary,
                   previous_runs, missing_fields, artist, title, frame, mb_result, mb_data, lfm_data,
                   discogs_data, calls, turns, warnings, future>>

CountOf(status) == Cardinality({i \in DOMAIN results : results[i].status = status})

\* the pool is shut down and print_summary logs the counts (lines 443-463)
PrintSummary ==
    /\ pd_pc = "collecting"
    /\ \A f \in Files : pc[f] = "collected"
    /\ pd_pc' = "done"
    /\ summary' = [total |-> Len(results),
                   updated |-> CountOf("updated"),
                   complete |-> CountOf("complete"),
                   errors |-> CountOf("error"),
                   not_found |-> CountOf("not_found"),
                   missing_info |-> CountOf("missing_info")]
    /\ UNCHANGED <<clockVars, rlVars, moodVars, keyVars, directory_exists, file_tags, results,
                   previous_runs, workerVars>>

Next ==
    \/ ProcessDirectory
    \/ \E f \in Files : StartFile(f)
    \/ \E f \in Files : SearchMusicbrainz(f)
    \/ \E f \in Files : GetMusicbrainzGenres(f)
    \/ \E f \in Files : SearchLastfm(f)
    \/ \E f \in Files : SearchDiscogs(f)
    \/ \E f \in Files : GetDiscogsRelease(f)
    \/ \E f \in Files : FinishFile(f)
    \/ \E f \in Files : Collect(f)
    \/ PrintSummary

Spec == Init /\ [][Next]_vars

\* SpecQuery: one file that lacks genre and mood, whose artist and title may hold
\* double quotes and blanks around them, run with both credentials
in_quoted_artist == <<" ", "\"", "D", "a", "f", "t", "\"", " ", "P", " ">>
in_quoted_title == <<"\"", " ", "G", "e", "t", "\"">>

QueryTags ==
    [title : {<<in_Get_Lucky>>, <<in_quoted_title>>},
     artist : {<<in_Daft_Punk>>, <<in_quoted_artist>>},
     album : {<<in_RAM>>}, genre : {<<>>}, date : {<<>>, <<in_1999>>}, mood : {<<>>}]

InitQuery ==
    \E tags \in QueryTags : InitFiles([f \in {1} |-> tags], TRUE, <<in_key, in_key>>)

SpecQuery == InitQuery /\ [][Next]_vars

\* SpecBatch: a directory that may be absent, with up to NumFiles files, run with no
\* credentials: search_lastfm and search_discogs return {} at once and
\* get_discogs_release is never called.  A file is complete, or lacks its artist,
\* or lacks genre, year and mood.
NumFiles == 2

BatchTags ==
    { [title |-> <<in_Get_Lucky>>, artist |-> <<in_Daft_Punk>>, album |-> <<in_RAM>>,
       genre |-> <<in_Rock>>, date |-> <<in_1999>>, mood |-> <<in_calm>>],
      [title |-> <<in_Get_Lucky>>, artist |-> <<>>, album |-> <<in_RAM>>,
       genre |-> <<>>, date |-> <<in_1999>>, mood |-> <<>>],
      [title |-> <<in_Get_Lucky>>, artist |-> <<in_Daft_Punk>>, album |-> <<in_RAM>>,
       genre |-> <<>>, date |-> <<>>, mood |-> <<>>] }

InitBatch ==
    \E n \in 0..NumFiles, exists \in BOOLEAN :
        \E tagsOfFiles \in [1..n -> BatchTags] :
            InitFiles(tagsOfFiles, exists, <<(<<>>), (<<>>)>>)

NextBatch ==
    \/ ProcessDirectory
    \/ \E f \in Files : StartFile(f)
    \/ \E f \in Files : SearchMusicbrainz(f)
    \/ \E f \in Files : GetMusicbrainzGenres(f)
    \/ \E f \in Files : SearchLastfm(f)
    \/ \E f \in Files : SearchDiscogs(f)
    \/ \E f \in Files : FinishFile(f)
    \/ \E f \in Files : Collect(f)
    \/ PrintSummary

SpecBatch == InitBatch /\ [][NextBatch]_vars

\* SpecBatchFair: SpecBatch when the main thread and the workers of the pool keep
\* running and every request and every tag read or write returns: a step that can
\* be taken is taken.
\* its files are complete, or lack the artist, or lack the date alone
FairTags ==
    { [title |-> <<in_Get_Lucky>>, artist |-> <<in_Daft_Punk>>, album |-> <<in_RAM>>,
       genre |-> <<in_Rock>>, date |-> <<in_1999>>, mood |-> <<in_calm>>],
      [title |-> <<in_Get_Lucky>>, artist |-> <<>>, album |-> <<in_RAM>>,
       genre |-> <<>>, date |-> <<in_1999>>, mood |-> <<>>],
      [title |-> <<in_Get_Lucky>>, artist |-> <<in_Daft_Punk>>, album |-> <<in_RAM>>,
       genre |-> <<in_Rock>>, date |-> <<>>, mood |-> <<in_calm>>] }

InitFair ==
    \E n \in 0..NumFiles, exists \in BOOLEAN :
        \E tagsOfFiles \in [1..n -> FairTags] :
            InitFiles(tagsOfFiles, exists, <<(<<>>), (<<>>)>>)

SpecBatchFair == InitFair /\ [][NextBatch]_vars /\ WF_vars(NextBatch)

(***************************************************************************)
(* SpecTwice: main run on a directory with one file, then run again on the *)
(* same directory with the same credentials.  Every run builds a new       *)
(* MetadataEnricher; the files are as the run before left them.            *)
(***************************************************************************)
MaxRuns == 2

RunAgain ==
    /\ pd_pc = "done"
    /\ Len(previous_runs) + 1 < MaxRuns
    /\ previous_runs' = Append(previous_runs, future)
    /\ last_request_time' = 0
    /\ pd_pc' = "start"
    /\ results' = <<>>
    /\ summary' = None
    /\ pc' = [f \in Files |-> "found"]
    /\ missing_fields' = [f \in Files |-> {}]
    /\ artist' = [f \in Files |-> <<>>]
    /\ title' = [f \in Files |-> <<>>]
    /\ frame' = [f \in Files |-> NoLocals]
    /\ mb_result' = [f \in Files |-> EmptyDict]
    /\ mb_data' = [f \in Files |-> EmptyDict]
    /\ lfm_data' = [f \in Files |-> EmptyDict]
    /\ discogs_data' = [f \in Files |-> EmptyDict]
    /\ calls' = [f \in Files |-> <<>>]
    /\ turns' = [f \in Files |-> 0]
    /\ warnings' = [f \in Files |-> {}]
    /\ future' = [f \in Files |-> Pending]
    /\ UNCHANGED <<now, rlVars, moodVars, keyVars, directory_exists, file_tags>>

\* one file with any tags; each credential is absent or set
InitTwice ==
    \E tags \in TagSets, keys \in {<<>>, in_key} \X {<<>>, in_key} :
        InitFiles([f \in {1} |-> tags], TRUE, keys)

NextTwice ==
    \/ Next
    \/ RunAgain

SpecTwice == InitTwice /\ [][NextTwice]_vars

(***************************************************************************)
(* Claims about process_file and process_directory (Spec, SpecBatch)       *)
(***************************************************************************)
\* process_file has returned a result for f (and has not raised)
HasResult(f) == pc[f] = "returned" \/ (pc[f] = "collected" /\ "status" \in DOMAIN future[f])

\* process_file has raised for f
HasRaised(f) == pc[f] = "raised" \/ (pc[f] = "collected" /\ "exception" \in DOMAIN future[f])

\* the tag is there and its first value is not ''
TagPresent(f, key) == file_tags[f][key] # <<>> /\ file_tags[f][key][1] # <<>>

AllPresent(f) == \A key \in {"genre", "date", "mood"} : TagPresent(f, key)

NoArtistOrTitle(f) == ~TagPresent(f, "artist") \/ ~TagPresent(f, "title")

\* C1: a process_file call on a file whose genre, date and mood are all non-empty
\* returns status 'complete' at once, with no request sent, no rate_limit call made
\* and no tag written, and nothing is sent or written for the file afterwards.
C1_CompleteWithoutNetwork ==
    [][\A f \in Files :
          /\ (AllPresent(f) /\ pc[f] = "submitted" /\ pc'[f] # "submitted")
                => (pc'[f] = "returned" /\ future'[f].status = "complete")
          /\ ((AllPresent(f) /\ pc[f] = "submitted")
                    \/ (HasResult(f) /\ future[f].status = "complete"))
                => (calls'[f] = <<>> /\ turns'[f] = 0 /\ file_tags'[f] = file_tags[f])]_vars

C1_Witness ==
    \E f \in Files :
        /\ AllPresent(f)
        /\ TagPresent(f, "artist")
        /\ pc[f] = "collected"
        /\ future[f].status = "complete"
        /\ pd_pc = "done"

\* C2 as claimed: every file whose artist or title is empty gets status
\* 'missing_info', with no request sent.
C2_MissingInfoWheneverNoArtistOrTitle ==
    \A f \in Files :
        (NoArtistOrTitle(f) /\ HasResult(f))
            => (future[f].status = "missing_info" /\ calls[f] = <<>>)

\* C2 amended: a file whose artist or title is empty never has a request sent or a
\* rate_limit call made for it; it gets 'missing_info' when one of genre, date and
\* mood is empty, and 'complete' when none is.
C2_MissingInfoWhenAFieldIsMissing ==
    \A f \in Files :
        NoArtistOrTitle(f) =>
            /\ calls[f] = <<>>
            /\ turns[f] = 0
            /\ HasResult(f) =>
                  future[f].status = IF AllPresent(f) THEN "complete" ELSE "missing_info"

C2_Witness ==
    \E f \in Files :
        /\ ~TagPresent(f, "artist")
        /\ TagPresent(f, "title")
        /\ ~AllPresent(f)
        /\ HasResult(f)
        /\ future[f].status = "missing_info"

\* The sources whose result process_file has merged when it is at pc[f].
Merged(f) ==
    CASE pc[f] = "lfm" -> <<"musicbrainz">>
      [] pc[f] \in {"discogs", "discogs_release"} -> <<"musicbrainz", "lastfm">>
      [] pc[f] = "finish" -> <<"musicbrainz", "lastfm", "discogs">>
      [] OTHER -> <<>>

\* What a source's result supplies for a field, '' if nothing.
Supplied(f, source, field) ==
    CASE source = "musicbrainz" ->
            IF DOMAIN mb_data[f] = {} THEN <<>>
            ELSE IF field = "genre"
            THEN (IF mb_data[f]["genre"] = <<>> THEN <<>> ELSE mb_data[f]["genre"][1])
            ELSE Prefix(mb_data[f]["date"], 4)
      [] source = "lastfm" ->
            IF DOMAIN lfm_data[f] = {} THEN <<>> ELSE lfm_data[f][field]
      [] source = "discogs" ->
            IF DOMAIN discogs_data[f] = {} THEN <<>>
            ELSE IF field = "genre"
            THEN (IF discogs_data[f]["genre"] = <<>> THEN <<>> ELSE discogs_data[f]["genre"][1])
            ELSE IF discogs_data[f]["year"] \in {<<>>, JsonNumber(0)} THEN <<>>
            ELSE Tail(discogs_data[f]["year"])

\* The value of the earliest of the merged sources that supplies one, '' if none does.
FirstFound(f, field) ==
    LET supplying == {i \in DOMAIN Merged(f) : Supplied(f, Merged(f)[i], field) # <<>>}
    IN  IF supplying = {} THEN <<>> ELSE Supplied(f, Merged(f)[Min(supplying)], field)

\* C3: for each of genre and year that is missing, new_metadata holds the value of
\* the earliest source, in the order MusicBrainz, Last.fm, Discogs, that supplied
\* a non-empty one (so no later source changes it), and nothing if none did.
C3_FirstFoundWins ==
    \A f \in Files :
        \A field \in {"genre", "year"} :
            (Merged(f) # <<>> /\ field \in missing_fields[f]) =>
                IF FirstFound(f, field) # <<>>
                THEN Get(frame[f].new_metadata, field) = FirstFound(f, field)
                ELSE ~Truthy(Get(frame[f].new_metadata, field))

\* MusicBrainz supplied 'House', Last.fm 'Techno': 'House' is kept
C3_Witness ==
    \E f \in Files :
        /\ pc[f] = "finish"
        /\ "genre" \in missing_fields[f]
        /\ Supplied(f, "musicbrainz", "genre") = in_House
        /\ Supplied(f, "lastfm", "genre") = in_Techno
        /\ frame[f].new_metadata["genre"] = in_House

\* C4: a genre, date or mood tag that is non-empty is never changed, and
\* new_metadata (also as reported in the result) only holds missing fields.
C4_PresentFieldNeverOverwritten ==
    [][\A f \in Files :
          /\ \A key \in {"genre", "date", "mood"} :
                TagPresent(f, key) => file_tags'[f][key] = file_tags[f][key]
          /\ DOMAIN frame'[f].new_metadata \subseteq missing_fields'[f]
          /\ (pc'[f] = "returned" /\ future'[f].status = "updated")
                => DOMAIN future'[f].metadata \subseteq missing_fields'[f]]_vars

\* a file that had a genre is updated with a mood, after MusicBrainz was asked:
\* its genre is the one it had
C4_Witness ==
    \E f \in Files :
        /\ HasResult(f)
        /\ future[f].status = "updated"
        /\ DOMAIN future[f].metadata = {"year", "mood"}
        /\ file_tags[f]["genre"] = <<in_Rock>>
        /\ file_tags[f]["mood"] # <<>>
        /\ file_tags[f]["date"] # <<>>

\* a result with no field filled
IsEmptyResult(data) == \A key \in DOMAIN data : data[key] = <<>>

Endpoints(f) == {calls[f][i].endpoint : i \in DOMAIN calls[f]}

\* C7: a request that fails (no connection, a non-2xx status, a malformed payload)
\* leaves its source's result empty, a malformed payload never reaches process_file
\* as a result, and process_file never raises: it asks every configured source and
\* returns a result.
C7_FailingSourceYieldsEmptyResult ==
    \A f \in Files :
        /\ ~HasRaised(f)
        /\ DOMAIN mb_data[f] # {} => ~IsNumber(mb_data[f]["date"])
        /\ warnings[f] \cap {"musicbrainz/recording", "musicbrainz/artist"} # {}
              => IsEmptyResult(mb_data[f])
        /\ "lastfm/track.getInfo" \in warnings[f] => IsEmptyResult(lfm_data[f])
        /\ warnings[f] \cap {"discogs/database/search", "discogs/releases"} # {}
              => IsEmptyResult(discogs_data[f])
        /\ (HasResult(f) /\ warnings[f] # {}) =>
              /\ "musicbrainz/recording" \in Endpoints(f)
              /\ ~NotConfigured(lastfm_api_key, lastfm_placeholder)
                    => "lastfm/track.getInfo" \in Endpoints(f)
              /\ ~NotConfigured(discogs_token, discogs_placeholder)
                    => "discogs/database/search" \in Endpoints(f)

\* C8: when process_file raises for a file, process_directory records one result
\* with status 'error' for it and goes on: it is never left by the exception, and
\* when it is done every file has exactly one result of its own.
C8_ErrorDoesNotAbortBatch ==
    /\ pd_pc # "aborted"
    /\ \A f \in Files :
          pc[f] = "collected" =>
              /\ Cardinality({i \in DOMAIN results : results[i].file = f}) = 1
              /\ \A i \in DOMAIN results :
                    results[i].file = f =>
                        IF HasRaised(f) THEN results[i].status = "error"
                        ELSE results[i] = future[f]
    /\ pd_pc = "done" => \A f \in Files : pc[f] = "collected"

\* one file ended in an error, another was updated, and the summary was printed
C8_Witness ==
    /\ pd_pc = "done"
    /\ \E f, g \in Files :
          /\ HasRaised(f)
          /\ \E i \in DOMAIN results : results[i].file = f /\ results[i].status = "error"
          /\ HasResult(g)
          /\ \E i \in DOMAIN results : results[i].file = g /\ results[i].status = "updated"

Rank(endpoint) ==
    CASE endpoint = "musicbrainz/recording" -> 1
      [] endpoint = "musicbrainz/artist" -> 2
      [] endpoint = "lastfm/track.getInfo" -> 3
      [] endpoint = "discogs/database/search" -> 4
      [] endpoint = "discogs/releases" -> 5

\* C9: the requests of one process_file run are sent in the order MusicBrainz
\* recording, MusicBrainz artist genres, Last.fm, Discogs; none is sent to Last.fm
\* while the MusicBrainz lookup is unfinished, none to Discogs while the Last.fm
\* lookup is.
C9_SourcesQueriedInOrder ==
    \A f \in Files :
        /\ \A i, j \in DOMAIN calls[f] :
              i < j => Rank(calls[f][i].endpoint) < Rank(calls[f][j].endpoint)
        /\ "lastfm/track.getInfo" \in Endpoints(f)
              => ("musicbrainz/recording" \in Endpoints(f) /\ pc[f] \notin {"mb", "mb_genres"})
        /\ Endpoints(f) \cap {"discogs/database/search", "discogs/releases"} # {}
              => pc[f] \notin {"mb", "mb_genres", "lfm"}

\* all five requests were sent for a file
C9_Witness ==
    \E f \in Files :
        /\ Len(calls[f]) = 5
        /\ calls[f][1].endpoint = "musicbrainz/recording"
        /\ calls[f][3].endpoint = "lastfm/track.getInfo"
        /\ calls[f][5].endpoint = "discogs/releases"

\* print_summary has logged the counts of the run's results
SummaryPrinted == pd_pc = "done" /\ summary.total = Len(results)

PreviousFuture(f) == previous_runs[Len(previous_runs)][f]

\* C15: a process_file run that returns 'complete', or 'updated' having written
\* every missing field, leaves the file with genre, date and mood all non-empty;
\* and the next run on a file left so returns 'complete', sends no request, makes
\* no rate_limit call and changes no tag.
C15_SecondRunIsComplete ==
    [][\A f \in Files :
          /\ ( /\ pc[f] # "returned"
               /\ pc'[f] = "returned"
               /\ \/ future'[f].status = "complete"
                  \/ /\ future'[f].status = "updated"
                     /\ DOMAIN future'[f].metadata = missing_fields'[f] )
                => \A key \in {"genre", "date", "mood"} :
                       file_tags'[f][key] # <<>> /\ file_tags'[f][key][1] # <<>>
          /\ (Len(previous_runs) > 0 /\ AllPresent(f) /\ pc[f] = "submitted" /\ pc'[f] # "submitted")
                => (pc'[f] = "returned" /\ future'[f].status = "complete")
          /\ ( /\ Len(previous_runs) > 0
               /\ \/ AllPresent(f) /\ pc[f] \in {"found", "submitted"}
                  \/ HasResult(f) /\ future[f].status = "complete" )
                => (calls'[f] = <<>> /\ turns'[f] = 0 /\ file_tags'[f] = file_tags[f])]_vars

\* the first run updated the file with genre, year and mood; the second found it
\* complete
C15_Witness ==
    /\ Len(previous_runs) = 1
    /\ \E f \in Files :
          /\ "status" \in DOMAIN PreviousFuture(f)
          /\ PreviousFuture(f).status = "updated"
          /\ DOMAIN PreviousFuture(f).metadata = {"genre", "year", "mood"}
          /\ HasResult(f)
          /\ future[f].status = "complete"
          /\ calls[f] = <<>>
          /\ pd_pc = "done"

\* C16: with the Last.fm key absent or the placeholder, search_lastfm returns {}
\* with no request sent and no rate_limit call made (the clock and
\* last_request_time are as before); likewise search_discogs with the Discogs
\* token absent or the placeholder.
C16_UnconfiguredSourceIsSkipped ==
    [][\A f \in Files :
          /\ (lastfm_api_key \in {<<>>, lastfm_placeholder} /\ pc[f] = "lfm" /\ pc'[f] # "lfm") =>
                /\ pc'[f] = "discogs"
                /\ DOMAIN lfm_data'[f] = {}
                /\ calls'[f] = calls[f] /\ turns'[f] = turns[f] /\ warnings'[f] = warnings[f]
                /\ last_request_time' = last_request_time /\ now' = now
          /\ (discogs_token \in {<<>>, discogs_placeholder} /\ pc[f] = "discogs" /\ pc'[f] # "discogs") =>
                /\ pc'[f] = "finish"
                /\ DOMAIN discogs_data'[f] = {}
                /\ calls'[f] = calls[f] /\ turns'[f] = turns[f] /\ warnings'[f] = warnings[f]
                /\ last_request_time' = last_request_time /\ now' = now
          /\ lastfm_api_key \in {<<>>, lastfm_placeholder}
                => "lastfm/track.getInfo" \notin Endpoints(f)
          /\ discogs_token \in {<<>>, discogs_placeholder}
                => Endpoints(f) \cap {"discogs/database/search", "discogs/releases"} = {}]_vars

\* a file searched with the placeholder as Last.fm key and no Discogs token: only
\* MusicBrainz was asked
C16_Witness ==
    /\ lastfm_api_key = lastfm_placeholder
    /\ discogs_token = <<>>
    /\ \E f \in Files :
          /\ HasResult(f)
          /\ future[f].status \in {"updated", "not_found"}
          /\ Len(calls[f]) = 2
          /\ turns[f] = 2
          /\ Endpoints(f) = {"musicbrainz/recording", "musicbrainz/artist"}

\* the tag under which update_metadata writes a field
TagOf(field) == IF field = "year" THEN "date" ELSE field

\* C17: process_file, past the three searches, returns 'updated' exactly when the
\* accumulator is non-empty and the write succeeded (the file's tags changed),
\* and then reports the accumulator, which is what was written; with an empty
\* accumulator or a failed write it returns 'not_found'.
C17_UpdatedIffWritten ==
    [][\A f \in Files :
          (pc[f] = "finish" /\ pc'[f] # "finish") =>
              LET accumulator == frame[f].new_metadata
                  written == file_tags'[f] # file_tags[f]
              IN  /\ pc'[f] = "returned"
                  /\ future'[f].status \in {"updated", "not_found"}
                  /\ future'[f].status = "updated" <=> (DOMAIN accumulator # {} /\ written)
                  /\ future'[f].status = "updated" =>
                        /\ DOMAIN accumulator \subseteq DOMAIN future'[f].metadata
                        /\ DOMAIN future'[f].metadata \subseteq DOMAIN accumulator \cup {"mood"}
                        /\ \A field \in DOMAIN accumulator :
                              future'[f].metadata[field] = accumulator[field]
                        /\ \A field \in DOMAIN future'[f].metadata :
                              file_tags'[f][TagOf(field)] = <<future'[f].metadata[field]>>
                  /\ (DOMAIN accumulator = {} \/ ~written) =>
                        (future'[f].status = "not_found" /\ ~written)]_vars

\* a file updated with the year alone
C17_Witness ==
    \E f \in Files :
        /\ HasResult(f)
        /\ future[f].status = "updated"
        /\ DOMAIN future[f].metadata = {"year"}
        /\ file_tags[f]["date"] = <<future[f].metadata["year"]>>
        /\ Len(calls[f]) >= 3

\* MusicBrainz supplied every field the file lacks
AllSuppliedByMusicbrainz(f) ==
    /\ pc[f] \in {"lfm", "discogs", "discogs_release", "finish"}
    /\ missing_fields[f] # {}
    /\ missing_fields[f] \subseteq {"genre", "year"}
    /\ \A field \in missing_fields[f] : Supplied(f, "musicbrainz", field) # <<>>

\* process_file is past its three searches, or has returned after them
PastSearches(f) ==
    pc[f] = "finish" \/ (HasResult(f) /\ future[f].status \in {"updated", "not_found"})

\* C18 as claimed: no request is sent to Last.fm or Discogs for a file whose
\* missing fields were all supplied by MusicBrainz.
C18_LaterSourcesNotConsulted ==
    \A f \in Files :
        AllSuppliedByMusicbrainz(f) =>
            Endpoints(f) \cap {"lastfm/track.getInfo", "discogs/database/search",
                               "discogs/releases"} = {}

\* C18 amended: every source whose credential is configured is asked, whatever
\* the earlier sources supplied; when MusicBrainz supplied every missing field,
\* the later answers change none of them.
C18_LaterSourcesAskedButIgnored ==
    \A f \in Files :
        /\ PastSearches(f) =>
              /\ "musicbrainz/recording" \in Endpoints(f)
              /\ lastfm_api_key \notin {<<>>, lastfm_placeholder}
                    => "lastfm/track.getInfo" \in Endpoints(f)
              /\ discogs_token \notin {<<>>, discogs_placeholder}
                    => "discogs/database/search" \in Endpoints(f)
        /\ AllSuppliedByMusicbrainz(f) =>
              \A field \in missing_fields[f] :
                  Get(frame[f].new_metadata, field) = Supplied(f, "musicbrainz", field)

\* MusicBrainz supplied the genre and the year the file lacked, and all five
\* requests were sent; Last.fm's genre was not taken
C18_Witness ==
    \E f \in Files :
        /\ pc[f] = "finish"
        /\ missing_fields[f] = {"genre", "year"}
        /\ AllSuppliedByMusicbrainz(f)
        /\ Len(calls[f]) = 5
        /\ Supplied(f, "lastfm", "genre") = in_Techno
        /\ frame[f].new_metadata["genre"] # in_Techno

\* the tag list Last.fm returned for f, [] when it returned nothing
LastfmTags(f) == IF DOMAIN lfm_data[f] = {} THEN <<>> ELSE lfm_data[f]["mood"]

\* The genre found once the given sources were merged: that of the earliest of
\* them that supplied one, '' when the file had a genre or none supplied one.
GenreFoundBy(f, sources) ==
    LET supplying == {i \in DOMAIN sources : Supplied(f, sources[i], "genre") # <<>>}
    IN  IF "genre" \notin missing_fields[f] \/ supplying = {} THEN <<>>
        ELSE Supplied(f, sources[Min(supplying)], "genre")

\* the mood the file is to get, None when it is to get none
MoodToFill(f) ==
    IF "mood" \notin missing_fields[f] THEN None
    ELSE IF LastfmTags(f) # <<>>
    THEN classify_mood(LastfmTags(f), GenreFoundBy(f, <<"musicbrainz", "lastfm">>))
    ELSE IF GenreFoundBy(f, <<"musicbrainz", "lastfm", "discogs">>) # <<>>
    THEN classify_mood(<<>>, GenreFoundBy(f, <<"musicbrainz", "lastfm", "discogs">>))
    ELSE None

\* C19: when mood was missing and Last.fm returned tags, the mood is classified at
\* the Last.fm step from those tags and the genre found so far, and stays so;
\* otherwise, when after the Discogs step a genre was found, it is
\* classify_mood([], found_genre); otherwise no mood is filled.  No mood is
\* computed for a file that had one.
C19_MoodFilling ==
    [][\A f \in Files :
          /\ pc[f] \in {"discogs", "discogs_release", "finish"} =>
                Get(frame[f].new_metadata, "mood") =
                    IF "mood" \in missing_fields[f] /\ LastfmTags(f) # <<>>
                    THEN classify_mood(LastfmTags(f), GenreFoundBy(f, <<"musicbrainz", "lastfm">>))
                    ELSE None
          /\ "mood" \notin missing_fields[f] => "mood" \notin DOMAIN frame[f].new_metadata
          /\ (pc[f] = "finish" /\ pc'[f] = "returned" /\ future'[f].status = "updated") =>
                /\ Get(future'[f].metadata, "mood") = MoodToFill(f)
                /\ "mood" \in DOMAIN future'[f].metadata => file_tags'[f]["mood"] = <<MoodToFill(f)>>
                /\ "mood" \notin DOMAIN future'[f].metadata => file_tags'[f]["mood"] = file_tags[f]["mood"]]_vars

\* After the Discogs step the file still carries the mood classified from Last.fm's
\* tags, though the genre found by then alone gives another mood.
C19_Witness ==
    \E f \in Files :
        /\ pc[f] = "finish"
        /\ "mood" \in missing_fields[f]
        /\ LastfmTags(f) # <<>>
        /\ frame[f].found_genre # <<>>
        /\ Get(frame[f].new_metadata, "mood") = MoodToFill(f)
        /\ MoodToFill(f) # classify_mood(<<>>, frame[f].found_genre)

in_2013 == <<"2", "0", "1", "3">>

\* The end-to-end scenario, when process_file has asked the three sources: a file
\* with artist and title and no genre, date or mood; MusicBrainz answered with the
\* genres ['Funk'] and a date of the year 2013, Last.fm with the tags
\* ['dance', 'fun'], Discogs with nothing.
C12_Scenario(f) ==
    /\ pc[f] = "finish"
    /\ TagPresent(f, "artist") /\ TagPresent(f, "title")
    /\ \A key \in {"genre", "date", "mood"} : ~TagPresent(f, key)
    /\ DOMAIN mb_data[f] # {}
    /\ mb_data[f]["genre"] = <<in_Funk>>
    /\ Prefix(mb_data[f]["date"], 4) = in_2013
    /\ DOMAIN lfm_data[f] # {}
    /\ lfm_data[f]["mood"] = <<in_dance, in_fun>>
    /\ DOMAIN discogs_data[f] = {}

C12_Applied == [genre |-> in_Funk, year |-> in_2013, mood |-> s_energetic]

\* C12: in the end-to-end scenario the accumulator holds genre 'Funk', year '2013'
\* and mood 'energetic', and when the write succeeds process_file returns
\* 'updated' with them and the file's tags hold them.
C12_EndToEnd ==
    [][\A f \in Files :
          C12_Scenario(f) =>
              /\ frame[f].new_metadata = C12_Applied
              /\ (pc'[f] # pc[f]) => pc'[f] = "returned"
              /\ (pc'[f] = "returned" /\ file_tags'[f] # file_tags[f]) =>
                    /\ future'[f].status = "updated"
                    /\ future'[f].metadata = C12_Applied
                    /\ file_tags'[f]["genre"] = <<in_Funk>>
                    /\ file_tags'[f]["date"] = <<in_2013>>
                    /\ file_tags'[f]["mood"] = <<s_energetic>>]_vars

\* the scenario with Discogs unreachable, ended in 'updated'
C12_Witness ==
    \E f \in Files :
        /\ HasResult(f)
        /\ future[f].status = "updated"
        /\ future[f].metadata = C12_Applied
        /\ Len(calls[f]) = 4
        /\ "discogs/database/search" \in warnings[f]
        /\ warnings[f] = {"discogs/database/search"}
        /\ file_tags[f]["mood"] = <<s_energetic>>
        /\ file_tags[f]["artist"] = <<in_Daft_Punk>>
        /\ file_tags[f]["title"] = <<in_Get_Lucky>>

\* two dicts with the same keys and values
SameDict(a, b) == DOMAIN a = DOMAIN b /\ \A k \in DOMAIN a : a[k] = b[k]

SameLocals(a, b) ==
    /\ SameDict(a.new_metadata, b.new_metadata)
    /\ a.found_genre = b.found_genre
    /\ a.raised = b.raised

\* The locals of a process_file call that is alone in the pool, once it has merged
\* what the sources returned for f up to the stage f is at.
AfterMusicbrainz(f) == MergeMusicbrainz(missing_fields[f], NoLocals, mb_data[f])
AfterLastfm(f) == MergeLastfm(missing_fields[f], AfterMusicbrainz(f), lfm_data[f])
AfterDiscogs(f) == MergeDiscogs(missing_fields[f], AfterLastfm(f), discogs_data[f])

LocalsAlone(f) ==
    IF pc[f] = "lfm" THEN AfterMusicbrainz(f)
    ELSE IF pc[f] \in {"discogs", "discogs_release"} THEN AfterLastfm(f)
    ELSE IF pc[f] = "finish" THEN AfterDiscogs(f)
    ELSE NoLocals

\* what a call for f alone returns from `finish` when the write succeeds or not
OutcomeAlone(f, saved) ==
    LET new_metadata == MoodFromGenre(missing_fields[f], AfterDiscogs(f))
    IN  IF DOMAIN new_metadata # {} /\ saved
        THEN Result(f, "updated", new_metadata)
        ELSE Result(f, "not_found", EmptyDict)

TagsAlone(f, saved) ==
    LET new_metadata == MoodFromGenre(missing_fields[f], AfterDiscogs(f))
    IN  IF DOMAIN new_metadata # {} /\ saved
        THEN update_tags(file_tags[f], new_metadata)
        ELSE file_tags[f]

SameResult(a, b) ==
    /\ DOMAIN a = DOMAIN b
    /\ "status" \in DOMAIN a => /\ a.file = b.file
                                /\ a.status = b.status
                                /\ SameDict(a.metadata, b.metadata)
    /\ "exception" \in DOMAIN a => a.exception = b.exception

\* what belongs to the process_file call for g and to its file is left as it was
Untouched(g) ==
    /\ pc'[g] = pc[g]
    /\ missing_fields'[g] = missing_fields[g]
    /\ artist'[g] = artist[g]
    /\ title'[g] = title[g]
    /\ SameLocals(frame'[g], frame[g])
    /\ SameDict(mb_result'[g], mb_result[g])
    /\ SameDict(mb_data'[g], mb_data[g])
    /\ SameDict(lfm_data'[g], lfm_data[g])
    /\ SameDict(discogs_data'[g], discogs_data[g])
    /\ calls'[g] = calls[g]
    /\ warnings'[g] = warnings[g]
    /\ SameResult(future'[g], future[g])
    /\ file_tags'[g] = file_tags[g]

\* C20: whatever the interleaving of the process_file calls, a step of one call
\* leaves the locals, the results of the searches, the outcome and the tags of
\* every other file as they were, and what a call holds and returns is what a call
\* alone in the pool derives from the file's own tags and from what the sources
\* returned for that file.
C20_WorkersShareNothingButTheLimiter ==
    [][\A f \in Files :
          /\ (pd_pc = "collecting" /\ pc'[f] # pc[f]) =>
                \A g \in Files \ {f} : Untouched(g)
          /\ pc[f] \in {"mb", "mb_genres", "lfm", "discogs", "discogs_release", "finish"} =>
                /\ missing_fields[f] = MissingFields(extract_metadata(file_tags[f]))
                /\ artist[f] = extract_metadata(file_tags[f])["artist"]
                /\ title[f] = extract_metadata(file_tags[f])["title"]
                /\ SameLocals(frame[f], LocalsAlone(f))
          /\ (pc[f] = "submitted" /\ pc'[f] = "returned") =>
                /\ SameResult(future'[f],
                              Result(f, EarlyStatus(extract_metadata(file_tags[f])), EmptyDict))
                /\ file_tags'[f] = file_tags[f]
          /\ (pc[f] = "finish" /\ pc'[f] = "returned") =>
                \E saved \in BOOLEAN :
                    /\ SameResult(future'[f], OutcomeAlone(f, saved))
                    /\ file_tags'[f] = TagsAlone(f, saved)
          /\ (pc'[f] = pc[f] \/ pc'[f] \notin {"returned"}) => file_tags'[f] = file_tags[f]]_vars

\* Two calls are in the pool at once, at different stages and with different
\* locals, the second one having started before the first.
C20_Witness ==
    \E f, g \in Files :
        /\ f < g
        /\ pc[f] = "mb_genres"
        /\ pc[g] = "finish"
        /\ DOMAIN frame[g].new_metadata # {}
        /\ DOMAIN frame[f].new_metadata = {}

\* the five statuses a result can have
Statuses == {"complete", "missing_info", "updated", "not_found", "error"}

\* the results collected for file f
ResultsOf(f) == {i \in DOMAIN results : results[i].file = f}

\* C21: process_directory collects exactly one result per discovered file, none
\* lost and none twice, each with one of the five statuses; in the summary the
\* total is the number of discovered files and the sum of the five counts, each
\* count being the number of files that ended in that status.
C21_OneOutcomePerFile ==
    /\ \A i \in DOMAIN results :
          /\ results[i].file \in Files
          /\ results[i].status \in Statuses
    /\ \A f \in Files :
          Cardinality(ResultsOf(f)) = IF pc[f] = "collected" THEN 1 ELSE 0
    /\ pd_pc = "done" =>
          /\ Len(results) = Cardinality(Files)
          /\ summary.total = Cardinality(Files)
          /\ summary.total = summary.updated + summary.complete + summary.errors
                                + summary.not_found + summary.missing_info
          /\ summary.updated =
                Cardinality({f \in Files : \E i \in ResultsOf(f) : results[i].status = "updated"})
          /\ summary.complete =
                Cardinality({f \in Files : \E i \in ResultsOf(f) : results[i].status = "complete"})
          /\ summary.errors =
                Cardinality({f \in Files : \E i \in ResultsOf(f) : results[i].status = "error"})
          /\ summary.not_found =
                Cardinality({f \in Files : \E i \in ResultsOf(f) : results[i].status = "not_found"})
          /\ summary.missing_info =
                Cardinality({f \in Files : \E i \in ResultsOf(f) : results[i].status = "missing_info"})

\* The summary of a run of NumFiles files collected in another order than they
\* were submitted in, one of which raised while another was complete.
C21_Witness ==
    /\ pd_pc = "done"
    /\ Cardinality(Files) = NumFiles
    /\ summary.total = NumFiles
    /\ summary.errors = 1
    /\ summary.complete = 1
    /\ results[1].file # 1

\* s with its double quotes removed and then trimmed
Cleaned(s) == Strip(RemoveChar(s, "\""))

\* s is trimmed and holds no double quote
IsClean(s) ==
    /\ \A i \in DOMAIN s : s[i] # "\""
    /\ s # <<>> => (s[1] # " " /\ s[Len(s)] # " ")

\* the artist and the title process_file extracts from the tags of f
ExtractedArtist(f) == extract_metadata(file_tags[f])["artist"]
ExtractedTitle(f) == extract_metadata(file_tags[f])["title"]

\* C22 as claimed: in the query sent to each of MusicBrainz, Last.fm and Discogs
\* the artist and the title are trimmed and have their double quotes stripped.
C22_EveryQueryIsCleaned ==
    \A f \in Files : \A i \in DOMAIN calls[f] :
        /\ calls[f][i].endpoint \in {"musicbrainz/recording", "lastfm/track.getInfo"} =>
              calls[f][i].query = <<Cleaned(ExtractedArtist(f)), Cleaned(ExtractedTitle(f))>>
        /\ calls[f][i].endpoint = "discogs/database/search" =>
              calls[f][i].query =
                  <<Cleaned(ExtractedArtist(f)) \o <<" ">> \o Cleaned(ExtractedTitle(f))>>

\* C22 amended: only in the query sent to MusicBrainz are the artist and the
\* title stripped of their double quotes and then trimmed; Last.fm and Discogs are
\* sent the artist and the title as they were extracted from the tags.
C22_OnlyMusicbrainzQueryIsCleaned ==
    \A f \in Files : \A i \in DOMAIN calls[f] :
        /\ calls[f][i].endpoint = "musicbrainz/recording" =>
              /\ calls[f][i].query = <<Cleaned(ExtractedArtist(f)), Cleaned(ExtractedTitle(f))>>
              /\ IsClean(calls[f][i].query[1])
              /\ IsClean(calls[f][i].query[2])
        /\ calls[f][i].endpoint = "lastfm/track.getInfo" =>
              calls[f][i].query = <<ExtractedArtist(f), ExtractedTitle(f)>>
        /\ calls[f][i].endpoint = "discogs/database/search" =>
              calls[f][i].query = <<ExtractedArtist(f) \o <<" ">> \o ExtractedTitle(f)>>

\* The three sources were asked about a file whose artist and title hold quotes
\* and blanks: MusicBrainz without them, Last.fm with them.
C22_Witness ==
    \E f \in Files :
        /\ ~IsClean(ExtractedArtist(f))
        /\ ~IsClean(ExtractedTitle(f))
        /\ \E i, j, k \in DOMAIN calls[f] :
              /\ calls[f][i].endpoint = "musicbrainz/recording"
              /\ calls[f][j].endpoint = "lastfm/track.getInfo"
              /\ calls[f][k].endpoint = "discogs/database/search"
              /\ calls[f][i].query # calls[f][j].query
              /\ calls[f][j].query = <<in_quoted_artist, in_quoted_title>>

\* C23: no step of a run changes the title, artist or album tag of a file; a
\* genre, date or mood tag changes only when process_file writes the file, only
\* to the non-empty value the update set holds for its field and only with the
\* outcome 'updated': a tag whose field has no non-empty value in the update set
\* is left as it was, whatever the outcome.
C23_WriterChangesOnlyFoundFields ==
    [][\A f \in Files :
          /\ file_tags'[f]["title"] = file_tags[f]["title"]
          /\ file_tags'[f]["artist"] = file_tags[f]["artist"]
          /\ file_tags'[f]["album"] = file_tags[f]["album"]
          /\ DOMAIN file_tags'[f] = DOMAIN file_tags[f]
          /\ \A field \in {"genre", "year", "mood"} :
                LET update == MoodFromGenre(missing_fields[f], frame[f])
                IN  /\ file_tags'[f][TagOf(field)] # file_tags[f][TagOf(field)] =>
                          /\ pc[f] = "finish"
                          /\ pc'[f] = "returned"
                          /\ future'[f].status = "updated"
                          /\ Truthy(Get(update, field))
                          /\ file_tags'[f][TagOf(field)] = <<update[field]>>
                    /\ (pc[f] = "finish" /\ ~Truthy(Get(update, field))) =>
                          file_tags'[f][TagOf(field)] = file_tags[f][TagOf(field)]]_vars

\* A file was updated with a year alone: its date tag was written, its empty genre
\* and mood tags and its title, artist and album are as they were.
C23_Witness ==
    \E f \in Files :
        /\ HasResult(f)
        /\ future[f].status = "updated"
        /\ DOMAIN future[f].metadata = {"year"}
        /\ file_tags[f]["date"] = <<future[f].metadata["year"]>>
        /\ file_tags[f]["genre"] = <<>>
        /\ file_tags[f]["mood"] = <<>>
        /\ file_tags[f]["title"] = <<in_Get_Lucky>>
        /\ file_tags[f]["artist"] = <<in_Daft_Punk>>
        /\ file_tags[f]["album"] = <<in_RAM>>

\* the file had a genre and lacked a mood when process_file read it
GenreKnownMoodMissing(f) ==
    "genre" \notin missing_fields[f] /\ "mood" \in missing_fields[f]

C5_WorkersTurnsSpaced ==
    \A i, j \in DOMAIN grants :
        (i < j /\ grants[i].thread # grants[j].thread)
            => grants[j].time - grants[i].time >= min_request_interval

\* C6: for calls of rate_limit made back-to-back by a single thread, call i+1
\* returns at least min_request_interval after call i returned.
C6_SequentialCallsSpaced ==
    \A i \in DOMAIN grants :
        i + 1 \in DOMAIN grants
            => grants[i + 1].time - grants[i].time >= min_request_interval

\* three calls back-to-back, the second and third made to wait the whole interval
C6_Witness ==
    /\ threads = {1}
    /\ Len(grants) >= 3
    /\ grants[2].time = grants[1].time + min_request_interval
    /\ grants[3].time = grants[2].time + min_request_interval

(***************************************************************************)
(* Claims about classify_mood (SpecMood)                                   *)
(***************************************************************************)
\* The keyword list the primary table gives a mood.
KeywordsOf(mood) ==
    LET row == CHOOSE i \in DOMAIN mood_keywords : mood_keywords[i].mood = mood
    IN  mood_keywords[row].keywords

\* Some keyword of the mood occurs in a lower-cased tag or in the lower-cased genre.
MoodOccurs(mood, tags, genre) ==
    \E s \in {tags[i] : i \in DOMAIN tags} \cup {genre} :
        AnyKeywordIn(KeywordsOf(mood), Lower(s))

C10_Order == <<s_energetic, s_chill, s_emotional, s_aggressive, s_groovy>>

\* C10: classify_mood returns the first mood, in the order energetic, chill,
\* emotional, aggressive, groovy, one of whose keywords occurs in the lower-cased
\* tags and genre; tags ['metal', 'energetic'] with genre '' give 'energetic'.
C10_FirstMoodInTableOrder ==
    ret_mood # None =>
        /\ \A i \in DOMAIN C10_Order :
              ( /\ MoodOccurs(C10_Order[i], arg_tags, arg_genre)
                /\ \A j \in 1..(i - 1) : ~MoodOccurs(C10_Order[j], arg_tags, arg_genre) )
              => ret_mood = C10_Order[i]
        /\ (arg_tags = <<in_metal, in_energetic>> /\ arg_genre = <<>>)
              => ret_mood = s_energetic

C10_Witness ==
    /\ arg_tags = <<in_metal, in_energetic>>
    /\ arg_genre = <<>>
    /\ ret_mood = s_energetic

\* The mood the two tables give a genre on its own: the first mood of the primary
\* table with a keyword in the lower-cased genre, else the first branch of the
\* genre-only chain (energetic, chill, aggressive, groovy) with a word in it, else
\* 'neutral'.
MoodOfGenre(genre) ==
    LET primary == {i \in DOMAIN C10_Order : MoodOccurs(C10_Order[i], <<>>, genre)}
        chain == {i \in DOMAIN genre_fallback :
                     AnyKeywordIn(genre_fallback[i].keywords, Lower(genre))}
    IN  IF primary # {} THEN C10_Order[Min(primary)]
        ELSE IF chain # {} THEN genre_fallback[Min(chain)].mood
        ELSE s_neutral

\* No keyword of the primary table and no word of the genre-only chain occurs in a
\* tag or in the genre.
NoKeywordOccurs(tags, genre) ==
    /\ \A i \in DOMAIN C10_Order : ~MoodOccurs(C10_Order[i], tags, genre)
    /\ \A i \in DOMAIN genre_fallback :
          \A s \in {tags[j] : j \in DOMAIN tags} \cup {genre} :
              ~AnyKeywordIn(genre_fallback[i].keywords, Lower(s))

\* C11: with an empty tag list classify_mood is decided by the genre alone (genre
\* 'smooth jazz' gives 'chill'), and whenever no keyword of either table occurs in
\* the input the result is 'neutral' (genre 'obscure polka').
C11_GenreAloneElseNeutral ==
    ret_mood # None =>
        /\ arg_tags = <<>> => ret_mood = MoodOfGenre(arg_genre)
        /\ (arg_tags = <<>> /\ arg_genre = in_smooth_jazz) => ret_mood = s_chill
        /\ (arg_tags = <<>> /\ arg_genre = in_obscure_polka) => ret_mood = s_neutral
        /\ NoKeywordOccurs(arg_tags, arg_genre) => ret_mood = s_neutral

C11_Witness ==
    /\ arg_tags = <<>>
    /\ arg_genre = in_smooth_jazz
    /\ ret_mood = s_chill

\* the primary table scanned over the lower-cased tags and genre joined by blanks:
\* the first mood with a keyword in the text, 'neutral' when there is none
PrimaryScan(tags, genre) ==
    LET text == Lower(Join(<<" ">>, tags \o <<genre>>))
        hits == {i \in DOMAIN mood_keywords : AnyKeywordIn(mood_keywords[i].keywords, text)}
    IN  IF hits # {} THEN mood_keywords[Min(hits)].mood ELSE s_neutral

\* a word of the genre-only chain occurs in the lower-cased genre
ChainMatches(genre) ==
    \E i \in DOMAIN genre_fallback : AnyKeywordIn(genre_fallback[i].keywords, Lower(genre))

\* every word of the genre-only chain contains a keyword the primary table lists
\* under the same mood
ChainWordsHoldPrimaryKeywords ==
    \A i \in DOMAIN genre_fallback : \A k \in DOMAIN genre_fallback[i].keywords :
        \E j \in DOMAIN mood_keywords :
            /\ mood_keywords[j].mood = genre_fallback[i].mood
            /\ \E m \in DOMAIN mood_keywords[j].keywords :
                  Contains(mood_keywords[j].keywords[m], genre_fallback[i].keywords[k])

\* C25: the genre-only chain of classify_mood never decides the result.  Each of
\* its words contains a primary keyword of the same mood and the genre is part of
\* the scanned text, so whenever the chain would match the primary table already
\* has, and classify_mood is the primary scan: its first matching mood, or
\* 'neutral' when it matches nothing.
C25_FallbackNeverDecides ==
    /\ ChainWordsHoldPrimaryKeywords
    /\ ret_mood # None =>
          /\ ret_mood = PrimaryScan(arg_tags, arg_genre)
          /\ ChainMatches(arg_genre) => PrimaryScan(arg_tags, arg_genre) # s_neutral
          /\ ret_mood = s_neutral =>
                \A i \in DOMAIN mood_keywords :
                    ~AnyKeywordIn(mood_keywords[i].keywords,
                                  Lower(Join(<<" ">>, arg_tags \o <<arg_genre>>)))

\* genre 'chillout', a word of the chain alone, classified 'chill' by the primary
\* keyword 'chill' it contains
C25_Witness ==
    /\ arg_tags = <<>>
    /\ arg_genre = in_chillout
    /\ ChainMatches(arg_genre)
    /\ ret_mood = s_chill
    /\ ret_mood = PrimaryScan(arg_tags, arg_genre)

====
